---- MODULE Spec2Model ----
(***************************************************************************)
(* Model of surfalize/batch.py: the deferred-call records (Operation,      *)
(* Parameter), the per-file task (_task), the dispatcher                   *)
(* (Batch._disptach_tasks), the result assembler                           *)
(* (Batch._construct_dataframe) and the Batch controller (registration     *)
(* methods and execute).                                                   *)
(*                                                                         *)
(* The Surface class (surfalize/surface.py) is an external collaborator:   *)
(* a surface is abstracted to one height value in Heights plus the log of  *)
(* the capabilities invoked on it.                                         *)
(***************************************************************************)
EXTENDS Integers, Sequences, FiniteSets, TLC

\* ------------------------------------------------------------------ bounds
\* Files given to a Batch, and deferred calls registered on it.
MaxFiles == 2
MaxCalls == 2
\* Lengths of the operations and parameters lists a single task is run with.
MaxOps == 2
MaxParams == 2

\* ------------------------------------------------------- small value sets
Heights == 0..4
Wrap(n) == n % 5

\* A pathlib.Path: the directory part and the final component (Path.name).
D1A == [dir |-> "d1", name |-> "a.ext"]
D1B == [dir |-> "d1", name |-> "b.ext"]
D1C == [dir |-> "d1", name |-> "c.ext"]
D2A == [dir |-> "d2", name |-> "a.ext"]
D1Bad == [dir |-> "d1", name |-> "bad.ext"]
Paths == {D1A, D1B, D1C, D2A, D1Bad}

\* All sequences over S of length at most n.
BoundedSeq(S, n) == UNION {[1..m -> S] : m \in 0..n}

None == "None"
Self == "self"
EmptyDict == [k \in {} |-> 0]

\* ------------------------------------------- Surface (external collaborator)
\* Surface.load(filepath): a readable file gives a surface with the file's
\* data; an unreadable one raises a load error.
Readable(filepath) == filepath.name # "bad.ext"

FileData(filepath) ==
    CASE filepath = D1A -> 1
      [] filepath = D1B -> 2
      [] filepath = D1C -> 3
      [] filepath = D2A -> 4
      [] OTHER -> 0

SurfaceLoad(filepath) ==
    [data |-> FileData(filepath),
     calls |-> <<[call |-> "load", id |-> filepath.name, seen |-> 0]>>]

\* The new height an operation capability computes from height x.
OperationEffect(identifier, args, x) ==
    CASE identifier = "zero" -> 0
      [] identifier = "center" -> Wrap(x + 3)
      [] identifier = "rotate" -> Wrap(x + args[1])
      [] identifier = "zoom" -> Wrap(x * args[1])
      [] OTHER -> Wrap(2 * x + 1)

\* Invoking an operation capability: with inplace=True the surface's own
\* data is replaced; otherwise a new surface is returned and this one keeps
\* its data. Either way the invocation is logged.
SurfaceOperation(surface, identifier, args, kwargs) ==
    [data |-> IF "inplace" \in DOMAIN kwargs /\ kwargs["inplace"] = TRUE
              THEN OperationEffect(identifier, args, surface.data)
              ELSE surface.data,
     calls |-> Append(surface.calls,
                      [call |-> "operation", id |-> identifier, seen |-> surface.data,
                       args |-> args, kwargs |-> kwargs])]

\* What a parameter capability returns: a scalar, or a list-like of values.
Scalar(v) == [list |-> FALSE, vals |-> <<v>>]
ListLike(vs) == [list |-> TRUE, vals |-> vs]

ArgOf(args) == IF Len(args) = 0 THEN 0 ELSE args[1]

SurfaceParameter(surface, identifier, args) ==
    LET x == surface.data IN
    CASE identifier = "Sa" -> Scalar(x)
      [] identifier = "Sq" -> Scalar(Wrap(x * x))
      [] identifier = "Vmc" -> Scalar(Wrap(x + 2 * ArgOf(args) + 1))
      [] identifier = "depth" -> ListLike(<<x, Wrap(x + 1)>>)
      [] identifier = "extrema" -> ListLike(<<x, Wrap(x + 2)>>)
      [] identifier = "levels" -> ListLike(<<x, Wrap(x + 3)>>)
      [] identifier = "file" -> Scalar("unnamed")
      [] OTHER -> Scalar(0)

\* method.return_labels: the labels registered for a capability, if any.
HasReturnLabels(identifier) == identifier \in {"depth", "levels"}

ReturnLabels(identifier) ==
    CASE identifier = "depth" -> <<"mean", "std">>
      [] identifier = "levels" -> <<"lo", "mid", "hi">>
      [] OTHER -> <<>>

LogParameter(surface, identifier) ==
    [surface EXCEPT !.calls =
        Append(@, [call |-> "parameter", id |-> identifier, seen |-> surface.data])]

\* Surface.AVAILABLE_PARAMETERS
AVAILABLE_PARAMETERS == {"Sa", "Sq"}

\* --------------------------------------------------------------- Operation
\* Operation(identifier, args, kwargs)
Operation(identifier, args, kwargs) ==
    [identifier |-> identifier, args |-> args, kwargs |-> kwargs]

\* Mutant: only the positional arguments are passed on.
execute_onNoKwargs(operation, surface) ==
    SurfaceOperation(surface, operation.identifier, operation.args, EmptyDict)

\* Operation.execute_on(surface): the surface after the call.
execute_on(operation, surface) ==
    SurfaceOperation(surface, operation.identifier, operation.args, operation.kwargs)

\* --------------------------------------------------------------- Parameter
Parameter(identifier, args, kwargs) ==
    [identifier |-> identifier, args |-> args, kwargs |-> kwargs]

BatchError == "BatchError"

\* Mutant: the key is built without the separating underscore.
LabelledDictNoSeparator(identifier, vals, labels) ==
    [k \in {identifier \o labels[i] : i \in 1..Len(labels)} |->
        vals[CHOOSE i \in 1..Len(labels) : identifier \o labels[i] = k]]

\* The dict comprehension {f'{identifier}_{label}': value for value, label
\* in zip(result, labels)}: a later pair with the same key replaces an
\* earlier one.
LabelledDict(identifier, vals, labels) ==
    LET n == IF Len(vals) < Len(labels) THEN Len(vals) ELSE Len(labels)
        key(i) == identifier \o "_" \o labels[i]
        last(k) == CHOOSE i \in 1..n :
                        key(i) = k /\ \A j \in 1..n : key(j) = k => j <= i
    IN [k \in {key(i) : i \in 1..n} |-> vals[last(k)]]

\* Mutant: a list-like result is zipped with whatever labels there are,
\* without the checks.
calculate_fromUnchecked(parameter, surface) ==
    LET result == SurfaceParameter(surface, parameter.identifier, parameter.args) IN
    IF result.list
    THEN [ok |-> TRUE, err |-> None,
          val |-> LabelledDict(parameter.identifier, result.vals,
                               ReturnLabels(parameter.identifier))]
    ELSE [ok |-> TRUE, err |-> None,
          val |-> [k \in {parameter.identifier} |-> result.vals[1]]]

\* Parameter.calculate_from(surface): the returned dict, or the error raised.
calculate_from(parameter, surface) ==
    LET result == SurfaceParameter(surface, parameter.identifier, parameter.args) IN
    IF result.list
    THEN IF ~HasReturnLabels(parameter.identifier)
         THEN [ok |-> FALSE, err |-> BatchError, val |-> EmptyDict]
         ELSE IF Len(result.vals) # Len(ReturnLabels(parameter.identifier))
              THEN [ok |-> FALSE, err |-> BatchError, val |-> EmptyDict]
              ELSE [ok |-> TRUE, err |-> None,
                    val |-> LabelledDict(parameter.identifier, result.vals,
                                         ReturnLabels(parameter.identifier))]
    ELSE [ok |-> TRUE, err |-> None,
          val |-> [k \in {parameter.identifier} |-> result.vals[1]]]

\* ------------------------------------------------------------------- _task
\* Mutant: a key the record already holds keeps its value.
UpdateKeepFirst(d, e) ==
    [k \in DOMAIN d \cup DOMAIN e |-> IF k \in DOMAIN d THEN d[k] ELSE e[k]]

\* dict.update
Update(d, e) ==
    [k \in DOMAIN d \cup DOMAIN e |-> IF k \in DOMAIN e THEN e[k] ELSE d[k]]

\* Mutant: the operations are applied last-registered first.
RECURSIVE RunOperationsReversed(_, _)
RunOperationsReversed(operations, surface) ==
    IF operations = <<>> THEN surface
    ELSE execute_on(Head(operations), RunOperationsReversed(Tail(operations), surface))

\* for operation in operations: operation.execute_on(surface)
RECURSIVE RunOperations(_, _)
RunOperations(operations, surface) ==
    IF operations = <<>> THEN surface
    ELSE RunOperations(Tail(operations), execute_on(Head(operations), surface))

\* for parameter in parameters: results.update(parameter.calculate_from(surface))
\* The loop stops at the first parameter that raises.
RECURSIVE RunParameters(_, _, _)
RunParameters(parameters, surface, results) ==
    IF parameters = <<>>
    THEN [data |-> surface.data, calls |-> surface.calls, ok |-> TRUE, err |-> None,
          results |-> results]
    ELSE LET logged == LogParameter(surface, Head(parameters).identifier)
             result == calculate_from(Head(parameters), surface)
         IN IF result.ok
            THEN RunParameters(Tail(parameters), logged, Update(results, result.val))
            ELSE [data |-> surface.data, calls |-> logged.calls, ok |-> FALSE,
                  err |-> result.err, results |-> EmptyDict]

\* Mutant: the whole path is recorded, not its last component.
FileEntryFullPath(filepath) ==
    [k \in {"file"} |-> filepath.dir \o "/" \o filepath.name]

\* dict(file=filepath.name): the record a task starts from.
FileEntry(filepath) == [k \in {"file"} |-> filepath.name]

\* Mutant: the parameters are evaluated on the loaded surface, before the
\* operations run.
TaskParametersFirst(filepath, operations, parameters) ==
    LET r == RunParameters(parameters, SurfaceLoad(filepath), FileEntry(filepath))
        s == RunOperations(operations, [data |-> r.data, calls |-> r.calls])
    IN [r EXCEPT !.calls = s.calls, !.data = s.data]

\* _task(filepath, operations, parameters): the record returned or the error
\* raised, with the log of what was invoked on the task's surface.
Task(filepath, operations, parameters) ==
    IF ~Readable(filepath)
    THEN [data |-> 0, calls |-> SurfaceLoad(filepath).calls, ok |-> FALSE,
          err |-> "LoadError", results |-> EmptyDict]
    ELSE RunParameters(parameters,
                       RunOperations(operations, SurfaceLoad(filepath)),
                       FileEntry(filepath))

\* ------------------------------------------------------------ tables
\* A pandas DataFrame: its column names and its rows in order.
NoTable == [columns |-> {}, rows |-> <<>>]
NaN == "NaN"

\* pd.DataFrame(results): the columns are the union of the records' keys; a
\* key a record lacks gives an empty cell.
DataFrame(records) ==
    LET columns == UNION {DOMAIN records[i] : i \in 1..Len(records)} IN
    [columns |-> columns,
     rows |-> [i \in 1..Len(records) |->
                 [c \in columns |-> IF c \in DOMAIN records[i]
                                    THEN records[i][c] ELSE NaN]]]

\* Column names of the merged table: a non-key column present on both sides
\* gets the suffix _x (left) or _y (right).
MergedName(c, other, suffix) ==
    IF c # "file" /\ c \in other THEN c \o suffix ELSE c

JoinRow(l, r, left, right) ==
    LET lname(c) == MergedName(c, right.columns, "_x")
        rname(c) == MergedName(c, left.columns, "_y")
    IN [k \in {lname(c) : c \in left.columns} \cup {rname(c) : c \in right.columns} |->
          IF \E c \in left.columns : lname(c) = k
          THEN l[CHOOSE c \in left.columns : lname(c) = k]
          ELSE r[CHOOSE c \in right.columns : rname(c) = k]]

\* The rows of right that match the left row l, joined to it, in right's order.
RECURSIVE Matches(_, _, _, _)
Matches(l, rrows, left, right) ==
    IF rrows = <<>> THEN <<>>
    ELSE (IF Head(rrows)["file"] = l["file"]
          THEN <<JoinRow(l, Head(rrows), left, right)>> ELSE <<>>)
         \o Matches(l, Tail(rrows), left, right)

RECURSIVE MergeRows(_, _, _)
MergeRows(lrows, left, right) ==
    IF lrows = <<>> THEN <<>>
    ELSE Matches(Head(lrows), right.rows, left, right)
         \o MergeRows(Tail(lrows), left, right)

\* Mutant: a left join, which keeps a left row that matches nothing, its
\* right-hand cells empty.
MergeLeft(left, right) ==
    LET columns == {MergedName(c, right.columns, "_x") : c \in left.columns}
                   \cup {MergedName(c, left.columns, "_y") : c \in right.columns}
        unmatched(l) == [c \in columns |-> IF c \in left.columns THEN l[c] ELSE NaN]
        rows[i \in 0..Len(left.rows)] ==
            IF i = 0 THEN <<>>
            ELSE rows[i - 1] \o
                 (IF Matches(left.rows[i], right.rows, left, right) = <<>>
                  THEN <<unmatched(left.rows[i])>>
                  ELSE Matches(left.rows[i], right.rows, left, right))
    IN [columns |-> columns, rows |-> rows[Len(left.rows)]]

\* pd.merge(left, right, on='file'): the default (inner) join, in the order
\* of the left keys. Defined when both tables have the key column.
Merge(left, right) ==
    [columns |-> {MergedName(c, right.columns, "_x") : c \in left.columns}
                 \cup {MergedName(c, left.columns, "_y") : c \in right.columns},
     rows |-> MergeRows(left.rows, left, right)]

\* The metadata tables pd.read_excel(additional_data) may give.
NoMetadata == [columns |-> {}, rows |-> <<>>, present |-> FALSE]

MetaRow(f, t) == [c \in {"file", "thickness"} |-> IF c = "file" THEN f ELSE t]

MetaAB ==
    [columns |-> {"file", "thickness"},
     rows |-> <<MetaRow("a.ext", 10), MetaRow("b.ext", 20)>>,
     present |-> TRUE]

MetadataTables == {MetaAB}

\* ------------------------------------------------------------------ state
VARIABLES
    filepaths,        \* Batch._filepaths
    additional_data,  \* Batch._additional_data
    operations,       \* Batch._operations
    parameters,       \* Batch._parameters
    pc,               \* "idle", or "dispatch" while execute is in _disptach_tasks
    multiprocessing,  \* execute's multiprocessing argument
    saveto,           \* execute's saveto argument is not None
    tasks,            \* per file: the state of its _task invocation
    completed,        \* parallel mode: finished tasks not yet yielded by imap_unordered
    results,          \* _disptach_tasks' results list
    progress,         \* the progress bar's count
    ret,              \* what the last call on the Batch returned or raised
    outfile,          \* the table df.to_excel(saveto) wrote in the last execute
    previous          \* the table the execute before this one returned, if the
                      \* Batch is as it was then

vars == <<filepaths, additional_data, operations, parameters, pc, multiprocessing,
          saveto, tasks, completed, results, progress, ret, outfile, previous>>

batch == <<filepaths, additional_data, operations, parameters>>
call == <<multiprocessing, saveto>>
dispatch == <<tasks, completed, results, progress>>

Returned(kind, err, df) == [err |-> err, kind |-> kind, df |-> df]
Raised(err) == Returned("raise", err, NoTable)

RowSet(df) == {df.rows[i] : i \in 1..Len(df.rows)}

\* What is kept of a returned table: its columns, its rows as a set, and
\* their number.
NoPrevious == [n |-> 0, columns |-> {}, rows |-> {}, has |-> FALSE]
Kept(df) == [n |-> Len(df.rows), columns |-> df.columns, rows |-> RowSet(df), has |-> TRUE]

\* A task that has not run: nothing loaded, nothing invoked.
NotStarted(st) ==
    [data |-> 0, calls |-> <<>>, ok |-> TRUE, err |-> None, results |-> EmptyDict,
     st |-> st]

NoTasks(st) == [k \in 1..Len(filepaths) |-> NotStarted(st)]

\* The variables of an execute call describe the call in progress or the one
\* that just ended; once another method of the Batch is called, that call's
\* arguments, locals and pool are gone.
NoCall ==
    /\ multiprocessing' = FALSE
    /\ saveto' = FALSE
    /\ tasks' = NoTasks("none")
    /\ completed' = <<>>
    /\ results' = <<>>
    /\ progress' = 0
    /\ outfile' = NoTable
    /\ previous' = NoPrevious

\* Batch.__init__(filepaths, additional_data)
Init ==
    /\ filepaths \in BoundedSeq(Paths, MaxFiles)
    /\ additional_data \in {NoMetadata} \cup MetadataTables
    /\ operations = <<>>
    /\ parameters = <<>>
    /\ pc = "idle"
    /\ multiprocessing = FALSE
    /\ saveto = FALSE
    /\ tasks = NoTasks("none")
    /\ completed = <<>>
    /\ results = <<>>
    /\ progress = 0
    /\ ret = Returned("none", None, NoTable)
    /\ outfile = NoTable
    /\ previous = NoPrevious

\* ----------------------------------------------------------- registration
\* Mutant: the registration method also runs the operation on every file.
RegisterOperationEager(operation) ==
    /\ pc = "idle"
    /\ Len(operations) + Len(parameters) < MaxCalls
    /\ operations' = Append(operations, operation)
    /\ ret' = [err |-> None, kind |-> Self, df |-> NoTable]
    /\ multiprocessing' = FALSE
    /\ saveto' = FALSE
    /\ tasks' = [k \in 1..Len(filepaths) |->
                   LET t == Task(filepaths[k], <<operation>>, <<>>) IN
                   [data |-> t.data, calls |-> t.calls, ok |-> t.ok, err |-> t.err,
                    results |-> t.results, st |-> "none"]]
    /\ completed' = <<>>
    /\ results' = <<>>
    /\ progress' = 0
    /\ outfile' = NoTable
    /\ previous' = NoPrevious
    /\ UNCHANGED <<filepaths, additional_data, parameters, pc>>

\* Mutant: the operation is put at the front of the list.
RegisterOperationFront(operation) ==
    /\ pc = "idle"
    /\ Len(operations) + Len(parameters) < MaxCalls
    /\ operations' = <<operation>> \o operations
    /\ ret' = Returned(Self, None, NoTable)
    /\ NoCall
    /\ UNCHANGED <<filepaths, additional_data, parameters, pc>>

\* self._operations.append(operation); return self
RegisterOperation(operation) ==
    /\ pc = "idle"
    /\ Len(operations) + Len(parameters) < MaxCalls
    /\ operations' = Append(operations, operation)
    /\ ret' = Returned(Self, None, NoTable)
    /\ NoCall
    /\ UNCHANGED <<filepaths, additional_data, parameters, pc>>

Inplace == [k \in {"inplace"} |-> TRUE]

zero == RegisterOperation(Operation("zero", <<>>, Inplace))

center == RegisterOperation(Operation("center", <<>>, Inplace))

Thresholds == {"0.5"}
threshold ==
    \E t \in Thresholds :
        RegisterOperation(Operation("threshold", <<>>, [threshold |-> t, inplace |-> TRUE]))

remove_outliers ==
    \E n \in {3}, method \in {"mean"} :
        RegisterOperation(Operation("remove_outliers", <<>>,
                                    [n |-> n, inplace |-> TRUE, method |-> method]))

fill_nonmeasured ==
    \E method \in {"nearest"} :
        RegisterOperation(Operation("fill_nonmeasured", <<>>,
                                    [inplace |-> TRUE, method |-> method]))

level == RegisterOperation(Operation("level", <<>>, Inplace))

filter ==
    \E filter_type \in {"lowpass"}, cutoff \in {10}, cutoff2 \in {None} :
        RegisterOperation(Operation("filter", <<filter_type, cutoff>>,
                                    [inplace |-> TRUE, cutoff2 |-> cutoff2]))

Angles == {1}
rotate == \E angle \in Angles : RegisterOperation(Operation("rotate", <<angle>>, Inplace))

align ==
    \E axis \in {"y"} :
        RegisterOperation(Operation("align", <<>>, [inplace |-> TRUE, axis |-> axis]))

Factors == {2}
zoom == \E factor \in Factors : RegisterOperation(Operation("zoom", <<factor>>, Inplace))

\* self._parameters.append(parameter); return self
RegisterParameter(parameter) ==
    /\ pc = "idle"
    /\ Len(operations) + Len(parameters) < MaxCalls
    /\ parameters' = Append(parameters, parameter)
    /\ ret' = Returned(Self, None, NoTable)
    /\ NoCall
    /\ UNCHANGED <<filepaths, additional_data, operations, pc>>

NoKwargs == EmptyDict

\* Batch.__getattr__(attr)(*args, **kwargs) for a published parameter.
ParameterArgs == {<<>>}
parameter_dummy_method ==
    \E attr \in AVAILABLE_PARAMETERS, args \in ParameterArgs :
        RegisterParameter(Parameter(attr, args, NoKwargs))

\* The names found in the instance's __dict__.
InstanceDict == {"_filepaths", "_additional_data", "_operations", "_parameters"}

\* The attribute names looked up on a Batch, and the arguments the returned
\* dummy method is called with.
Attributes == AVAILABLE_PARAMETERS \cup {"Sz", "_operations"}
CallArgs == {<<>>, <<1>>}
CallKwargs == {NoKwargs, [p |-> 10]}

\* Mutant: the dummy method registers the parameter without its arguments.
getattrDefaultArgs(attr, args, kwargs) ==
    IF attr \in InstanceDict
    THEN /\ pc = "idle"
         /\ ret' = Returned("attribute", None, NoTable)
         /\ NoCall
         /\ UNCHANGED <<batch, pc>>
    ELSE IF attr \notin AVAILABLE_PARAMETERS
    THEN /\ pc = "idle"
         /\ ret' = Raised("AttributeError")
         /\ NoCall
         /\ UNCHANGED <<batch, pc>>
    ELSE RegisterParameter(Parameter(attr, <<>>, NoKwargs))

\* Batch.__getattr__(attr), and the call of what it returns when that is
\* the dummy method: an instance attribute is returned as it is, a name that
\* is not a published parameter raises AttributeError, and the dummy method
\* of a published parameter registers Parameter(attr, args, kwargs).
getattr(attr, args, kwargs) ==
    IF attr \in InstanceDict
    THEN /\ pc = "idle"
         /\ ret' = Returned("attribute", None, NoTable)
         /\ NoCall
         /\ UNCHANGED <<batch, pc>>
    ELSE IF attr \notin AVAILABLE_PARAMETERS
    THEN /\ pc = "idle"
         /\ ret' = Raised("AttributeError")
         /\ NoCall
         /\ UNCHANGED <<batch, pc>>
    ELSE RegisterParameter(Parameter(attr, args, kwargs))

\* An entry of the list given to roughness_parameters: a bare identifier
\* string, or a Parameter record.
Str(identifier) == [parameter |-> Parameter(identifier, <<>>, NoKwargs), isstr |-> TRUE]
Rec(parameter) == [parameter |-> parameter, isstr |-> FALSE]

\* list(Surface.AVAILABLE_PARAMETERS), in the set's iteration order.
AvailableList == <<Str("Sa"), Str("Sq")>>

ParameterLists ==
    {<<Str("extrema")>>, <<Str("Sa"), Rec(Parameter("Vmc", <<1>>, NoKwargs))>>}

\* Mutant: a Parameter record of the list is registered by its identifier
\* only, like a string.
RECURSIVE AppendParametersByName(_, _)
AppendParametersByName(registered, entries) ==
    IF entries = <<>> THEN registered
    ELSE AppendParametersByName(
            Append(registered, Parameter(Head(entries).parameter.identifier, <<>>, NoKwargs)),
            Tail(entries))

\* for parameter in parameters: a string becomes Parameter(parameter), a
\* Parameter record is appended as it is.
RECURSIVE AppendParameters(_, _)
AppendParameters(registered, entries) ==
    IF entries = <<>> THEN registered
    ELSE AppendParameters(
            Append(registered,
                   IF Head(entries).isstr
                   THEN Parameter(Head(entries).parameter.identifier, <<>>, NoKwargs)
                   ELSE Head(entries).parameter),
            Tail(entries))

\* Batch.roughness_parameters(parameters=None)
roughness_parameters ==
    \E given \in {<<>>} \cup {<<l>> : l \in ParameterLists} :
        LET entries == IF given = <<>> THEN AvailableList ELSE given[1] IN
        /\ pc = "idle"
        /\ Len(operations) + Len(parameters) + Len(entries) <= MaxCalls
        /\ parameters' = AppendParameters(parameters, entries)
        /\ ret' = Returned(Self, None, NoTable)
        /\ NoCall
        /\ UNCHANGED <<filepaths, additional_data, operations, pc>>

\* --------------------------------------------------------------- execution

\* Batch._construct_dataframe(results): the table, or the KeyError pd.merge
\* raises when the results table has no 'file' column (no records at all).
ConstructDataframe(records) ==
    LET df == DataFrame(records) IN
    IF additional_data.present
    THEN IF "file" \in df.columns
         THEN Returned("df", None, Merge(additional_data, df))
         ELSE Raised("KeyError")
    ELSE Returned("df", None, df)

\* The end of execute once _disptach_tasks has returned records: build the
\* table, write it when saveto is given, return it.
Finish(records, save) ==
    LET out == ConstructDataframe(records) IN
    /\ pc' = "idle"
    /\ ret' = out
    /\ outfile' = IF out.kind = "df" /\ save THEN out.df ELSE NoTable

\* Mutant: a failed task is skipped and execute goes on to build the table
\* from the records collected so far.
PropagatePartial(err) ==
    /\ Finish(results, saveto)
    /\ UNCHANGED <<results, progress>>

\* The exception of a failed task leaves the dispatch loop and execute: no
\* table is built from the records collected so far and nothing is written.
Propagate(err) ==
    /\ pc' = "idle"
    /\ ret' = Raised(err)
    /\ UNCHANGED <<results, progress, outfile>>

\* Mutant: only the parameters list is looked at.
NoParametersRegistered == parameters = <<>>

\* "not self._parameters and not self._operations"
NothingRegistered == parameters = <<>> /\ operations = <<>>

\* Mutant: the pool's task is built without the operations.
PoolTaskNoOperations(filepath) == Task(filepath, <<>>, parameters)

\* Mutant: a task that starts after another task has finished finds the
\* operations list grown by that task and runs every operation twice.
PoolTaskShared(filepath) ==
    Task(filepath,
         IF \E j \in 1..Len(filepaths) : tasks[j].st = "done"
         THEN operations \o operations ELSE operations,
         parameters)

\* partial(_task, operations=self._operations, parameters=self._parameters)
PoolTask(filepath) == Task(filepath, operations, parameters)

Done(t) ==
    [data |-> t.data, calls |-> t.calls, ok |-> t.ok, err |-> t.err,
     results |-> t.results, st |-> "done"]

\* Mutant: a task step uses up the first registered operation.
ConsumesOperations ==
    /\ operations' = IF pc = "dispatch" /\ operations # <<>>
                     THEN Tail(operations) ELSE operations
    /\ UNCHANGED <<filepaths, additional_data, parameters>>

\* execute, _disptach_tasks and _task only read the file list, the metadata
\* and the registered lists.
ReadOnly == UNCHANGED batch

\* Batch.execute(multiprocessing, saveto) up to the start of the dispatch loop.
execute ==
    \E mp \in BOOLEAN, save \in BOOLEAN :
        /\ pc = "idle"
        /\ multiprocessing' = mp
        /\ saveto' = save
        /\ completed' = <<>>
        /\ results' = <<>>
        /\ progress' = 0
        /\ IF NothingRegistered
           THEN /\ pc' = "idle"
                /\ ret' = Raised(BatchError)
                /\ outfile' = NoTable
                /\ tasks' = NoTasks("none")
           ELSE /\ tasks' = NoTasks(IF mp THEN "pending" ELSE "none")
                /\ IF Len(filepaths) = 0
                   THEN Finish(<<>>, save)
                   ELSE /\ pc' = "dispatch"
                        /\ ret' = Returned("none", None, NoTable)
                        /\ outfile' = NoTable
        /\ previous' = IF ret.kind = "df" THEN Kept(ret.df) ELSE NoPrevious
        /\ ReadOnly

\* A pool worker runs _task for one submitted file.
TaskRun(k) ==
    /\ pc = "dispatch"
    /\ multiprocessing
    /\ tasks[k].st = "pending"
    /\ tasks' = [tasks EXCEPT ![k] = Done(PoolTask(filepaths[k]))]
    /\ completed' = Append(completed, k)
    /\ ReadOnly
    /\ UNCHANGED <<call, previous, pc, results, progress, ret, outfile>>

\* Mutant: the loop is left with the first record that arrives.
CollectFirstOnly ==
    /\ pc = "dispatch"
    /\ multiprocessing
    /\ completed # <<>>
    /\ LET k == Head(completed) IN
       /\ completed' = Tail(completed)
       /\ IF tasks[k].ok
          THEN /\ results' = Append(results, tasks[k].results)
               /\ progress' = progress + 1
               /\ Finish(results', saveto)
          ELSE Propagate(tasks[k].err)
    /\ ReadOnly
    /\ UNCHANGED <<call, previous, tasks>>

\* One iteration of "for result in pool.imap_unordered(...)": the next
\* finished task's record is appended, or its error is raised out of execute.
Collect ==
    /\ pc = "dispatch"
    /\ multiprocessing
    /\ completed # <<>>
    /\ LET k == Head(completed) IN
       /\ completed' = Tail(completed)
       /\ IF tasks[k].ok
          THEN /\ results' = Append(results, tasks[k].results)
               /\ progress' = progress + 1
               /\ IF Len(results') = Len(filepaths)
                  THEN Finish(results', saveto)
                  ELSE UNCHANGED <<pc, ret, outfile>>
          ELSE Propagate(tasks[k].err)
    /\ ReadOnly
    /\ UNCHANGED <<call, previous, tasks>>

\* Mutant: the loop walks the file list from its end.
SequentialStepBackwards ==
    /\ pc = "dispatch"
    /\ ~multiprocessing
    /\ LET k == Len(filepaths) - Len(results)
           t == Task(filepaths[k], operations, parameters)
       IN /\ tasks' = [tasks EXCEPT ![k] = Done(t)]
          /\ IF t.ok
             THEN /\ results' = Append(results, t.results)
                  /\ progress' = progress + 1
                  /\ IF Len(results') = Len(filepaths)
                     THEN Finish(results', saveto)
                     ELSE UNCHANGED <<pc, ret, outfile>>
             ELSE Propagate(t.err)
    /\ ReadOnly
    /\ UNCHANGED <<call, previous, completed>>

\* One iteration of "for filepath in tqdm(self._filepaths)": _task runs on
\* the caller's thread for the next file of the list.
SequentialStep ==
    /\ pc = "dispatch"
    /\ ~multiprocessing
    /\ LET k == Len(results) + 1
           t == Task(filepaths[k], operations, parameters)
       IN /\ tasks' = [tasks EXCEPT ![k] = Done(t)]
          /\ IF t.ok
             THEN /\ results' = Append(results, t.results)
                  /\ progress' = progress + 1
                  /\ IF Len(results') = Len(filepaths)
                     THEN Finish(results', saveto)
                     ELSE UNCHANGED <<pc, ret, outfile>>
             ELSE Propagate(t.err)
    /\ ReadOnly
    /\ UNCHANGED <<call, previous, completed>>

\* ------------------------------------------------------------ specification
Next ==
    \/ zero
    \/ rotate
    \/ parameter_dummy_method
    \/ roughness_parameters
    \/ execute
    \/ \E k \in 1..Len(filepaths) : TaskRun(k)
    \/ Collect
    \/ SequentialStep

Spec == Init /\ [][Next]_vars

\* The operations the registration methods of Batch can put in the list, and
\* the parameters __getattr__ and roughness_parameters can.
OperationRecords ==
    {Operation("zero", <<>>, Inplace), Operation("center", <<>>, Inplace)}
    \cup {Operation("rotate", <<angle>>, Inplace) : angle \in Angles}
    \cup {Operation("zoom", <<factor>>, Inplace) : factor \in Factors}

ParameterRecords ==
    {Parameter(id, <<>>, NoKwargs) : id \in {"Sa", "Sq", "depth", "extrema", "levels"}}
    \cup {Parameter("Vmc", <<p>>, NoKwargs) : p \in {1, 2}}
    \cup {Parameter("file", <<>>, NoKwargs)}

\* A Batch of one file on which the lists have been registered: the inputs
\* of one _task invocation.
InitTask ==
    /\ filepaths \in {<<D1B>>, <<D1C>>}
    /\ additional_data = NoMetadata
    /\ operations \in BoundedSeq(OperationRecords, MaxOps)
    /\ parameters \in BoundedSeq(ParameterRecords, MaxParams)
    /\ pc = "idle"
    /\ multiprocessing = FALSE
    /\ saveto = FALSE
    /\ tasks = NoTasks("none")
    /\ completed = <<>>
    /\ results = <<>>
    /\ progress = 0
    /\ ret = Returned(Self, None, NoTable)
    /\ outfile = NoTable
    /\ previous = NoPrevious

NextTask ==
    \/ execute
    \/ \E k \in 1..Len(filepaths) : TaskRun(k)
    \/ Collect
    \/ SequentialStep

SpecTask == InitTask /\ [][NextTask]_vars

\* Operation records as the class lets them be constructed: with inplace
\* true, with inplace false, and without the flag.
AnyKwargs == {EmptyDict, Inplace, [inplace |-> FALSE]}
AnyOperations ==
    {Operation(id, <<>>, kwargs) : id \in {"zero", "center"}, kwargs \in AnyKwargs}
    \cup {Operation("rotate", <<angle>>, kwargs) : angle \in Angles, kwargs \in AnyKwargs}

\* The inputs of one _task invocation whose operations are any Operation
\* records.
InitOperation ==
    /\ filepaths \in {<<D1B>>, <<D1C>>}
    /\ additional_data = NoMetadata
    /\ operations \in BoundedSeq(AnyOperations, MaxOps) \ {<<>>}
    /\ parameters \in {<<>>, <<Parameter("Sa", <<>>, NoKwargs)>>}
    /\ pc = "idle"
    /\ multiprocessing = FALSE
    /\ saveto = FALSE
    /\ tasks = NoTasks("none")
    /\ completed = <<>>
    /\ results = <<>>
    /\ progress = 0
    /\ ret = Returned(Self, None, NoTable)
    /\ outfile = NoTable
    /\ previous = NoPrevious

SpecOperation == InitOperation /\ [][NextTask]_vars

\* A metadata table whose key column is not named 'file'.
MetaNoFile ==
    [columns |-> {"filename", "thickness"},
     rows |-> <<[filename |-> "b.ext", thickness |-> 20]>>,
     present |-> TRUE]

\* Mutant: the column looked for is the 'filename' of the class docstring.
LacksFilenameColumn(table) == table.present /\ "filename" \notin table.columns

\* "'file' not in self._additional_data.columns"
LacksFileColumn(table) == table.present /\ "file" \notin table.columns

\* Batch(filepaths, additional_data): the Batch with its two empty lists, or
\* the ValueError that leaves no Batch to call anything on.
InitRegister ==
    /\ filepaths \in {<<>>, <<D1B>>}
    /\ additional_data \in {NoMetadata, MetaAB, MetaNoFile}
    /\ operations = <<>>
    /\ parameters = <<>>
    /\ IF LacksFileColumn(additional_data)
       THEN pc = "unconstructed" /\ ret = Raised("ValueError")
       ELSE pc = "idle" /\ ret = Returned("none", None, NoTable)
    /\ multiprocessing = FALSE
    /\ saveto = FALSE
    /\ tasks = NoTasks("none")
    /\ completed = <<>>
    /\ results = <<>>
    /\ progress = 0
    /\ outfile = NoTable
    /\ previous = NoPrevious

\* Every registration method of Batch, the attribute fallback, and execute.
NextRegister ==
    \/ zero
    \/ center
    \/ threshold
    \/ remove_outliers
    \/ fill_nonmeasured
    \/ level
    \/ filter
    \/ rotate
    \/ align
    \/ zoom
    \/ \E attr \in Attributes, args \in CallArgs, kwargs \in CallKwargs :
          getattr(attr, args, kwargs)
    \/ roughness_parameters
    \/ execute
    \/ \E k \in 1..Len(filepaths) : TaskRun(k)
    \/ Collect
    \/ SequentialStep

SpecRegister == InitRegister /\ [][NextRegister]_vars

\* ------------------------------------------------------------------ claims
Files == 1..Len(filepaths)

\* Files whose task has run and whose file could be loaded.
Ran == {k \in Files : tasks[k].st = "done" /\ Readable(filepaths[k])}

\* The data of a file after the first i registered operations, each applied
\* to the outcome of the one before.
ExpectedData(filepath, i) ==
    LET f[j \in 0..i] ==
            IF j = 0 THEN FileData(filepath)
            ELSE OperationEffect(operations[j].identifier, operations[j].args, f[j - 1])
    IN f[i]

\* The data of a file after two registered operations applied second first.
SwappedData(filepath) ==
    OperationEffect(operations[1].identifier, operations[1].args,
        OperationEffect(operations[2].identifier, operations[2].args, FileData(filepath)))

\* C1: a task invokes the registered operations on its surface in exactly
\* registration order, each on the data the earlier ones left, so the final
\* data is that of the operations composed in registration order (and, for
\* two order-sensitive operations, differs from what the reverse order gives).
C1_OperationsInRegistrationOrder ==
    \A k \in Ran :
        LET calls == tasks[k].calls IN
        /\ Len(calls) >= 1 + Len(operations)
        /\ \A i \in 1..Len(operations) :
              /\ calls[i + 1].call = "operation"
              /\ calls[i + 1].id = operations[i].identifier
              /\ calls[i + 1].seen = ExpectedData(filepaths[k], i - 1)
        /\ Cardinality({i \in 1..Len(calls) : calls[i].call = "operation"})
              = Len(operations)
        /\ tasks[k].data = ExpectedData(filepaths[k], Len(operations))

C1_Witness ==
    \E k \in Ran :
        /\ Len(operations) = 2
        /\ operations[1].identifier # operations[2].identifier
        /\ SwappedData(filepaths[k]) # ExpectedData(filepaths[k], 2)
        /\ tasks[k].data = ExpectedData(filepaths[k], 2)
        /\ tasks[k].data # SwappedData(filepaths[k])

\* C2: in a task the file is loaded first, then every registered operation
\* runs, and only then the parameters are evaluated, in their registration
\* order, each on the data the last operation left.
C2_LoadOperationsParameters ==
    \A k \in Ran :
        LET calls == tasks[k].calls
            n == Len(operations)
            m == Len(parameters)
        IN /\ Len(calls) >= 1 + n
           /\ Len(calls) <= 1 + n + m
           /\ tasks[k].ok => Len(calls) = 1 + n + m
           /\ calls[1].call = "load"
           /\ calls[1].id = filepaths[k].name
           /\ \A i \in 2..Len(calls) :
                 IF i <= n + 1
                 THEN /\ calls[i].call = "operation"
                      /\ calls[i].id = operations[i - 1].identifier
                 ELSE /\ calls[i].call = "parameter"
                      /\ calls[i].id = parameters[i - n - 1].identifier
                      /\ calls[i].seen = ExpectedData(filepaths[k], n)

C2_Witness ==
    \E k \in Ran :
        /\ tasks[k].ok
        /\ operations # <<>>
        /\ parameters # <<>>
        /\ ExpectedData(filepaths[k], Len(operations)) # FileData(filepaths[k])
        /\ tasks[k].calls[Len(tasks[k].calls)].call = "parameter"
        /\ tasks[k].calls[Len(tasks[k].calls)].seen # FileData(filepaths[k])

\* No file has been loaded and no capability invoked on any surface.
Untouched(ts) == \A k \in DOMAIN ts : ts[k].calls = <<>> /\ ts[k].st # "done"

\* C3: registering never executes. Nothing is loaded or invoked at
\* construction, and every step taken while no execute is dispatching (a
\* registration call, or the start of execute) leaves every surface
\* untouched and no record collected: a registered call is first consumed
\* by a task step, which happens only inside the dispatch of an execute.
C3_RegisteringNeverExecutes ==
    /\ Untouched(tasks) /\ results = <<>>
    /\ [][pc = "idle" => Untouched(tasks') /\ results' = <<>> /\ progress' = 0]_vars

C3_Witness ==
    /\ pc = "idle"
    /\ ret.kind = Self
    /\ filepaths # <<>>
    /\ operations # <<>>
    /\ parameters # <<>>
    /\ Untouched(tasks)

\* The surface a task's parameters are evaluated on.
Measured(k) == [data |-> tasks[k].data, calls |-> <<>>]

\* What the capability of parameter p returns on the surface of task k.
ReturnedBy(p, k) == SurfaceParameter(Measured(k), p.identifier, p.args)

\* A parameter whose capability returns a list-like without labels, or
\* with a number of labels other than the number of values.
Malformed(p, k) ==
    /\ ReturnedBy(p, k).list
    /\ \/ ~HasReturnLabels(p.identifier)
       \/ Len(ReturnLabels(p.identifier)) # Len(ReturnedBy(p, k).vals)

\* C4: calculate_from returns exactly {X: v} for a scalar result v of the
\* parameter X, and exactly {Y_l_i: v_i}, value i under label i, for a
\* list-like result of Y whose capability carries as many labels as values;
\* the record of a task holds these entries for its last parameter.
C4_ResultKeys ==
    \A k \in Ran : \A j \in 1..Len(parameters) :
        LET p == parameters[j]
            returned == ReturnedBy(p, k)
            labels == ReturnLabels(p.identifier)
            out == calculate_from(p, Measured(k))
        IN /\ ~returned.list =>
                /\ out.ok
                /\ DOMAIN out.val = {p.identifier}
                /\ out.val[p.identifier] = returned.vals[1]
           /\ returned.list /\ ~Malformed(p, k) =>
                /\ out.ok
                /\ DOMAIN out.val =
                      {p.identifier \o "_" \o labels[i] : i \in 1..Len(labels)}
                /\ \A i \in 1..Len(labels) :
                      out.val[p.identifier \o "_" \o labels[i]] = returned.vals[i]
           /\ tasks[k].ok /\ j = Len(parameters) =>
                /\ DOMAIN out.val \subseteq DOMAIN tasks[k].results
                /\ \A key \in DOMAIN out.val : tasks[k].results[key] = out.val[key]
                /\ Len(parameters) = 1 =>
                      DOMAIN tasks[k].results = {"file"} \cup DOMAIN out.val

C4_Witness ==
    \E k \in Ran :
        /\ tasks[k].ok
        /\ Len(parameters) = 2
        /\ parameters[1].identifier = "Sa"
        /\ parameters[2].identifier = "depth"
        /\ DOMAIN tasks[k].results = {"file", "Sa", "depth_mean", "depth_std"}
        /\ tasks[k].results["depth_mean"] = ReturnedBy(parameters[2], k).vals[1]
        /\ tasks[k].results["depth_std"] = ReturnedBy(parameters[2], k).vals[2]
        /\ tasks[k].results["depth_mean"] # tasks[k].results["depth_std"]

\* C5: evaluating a parameter whose list-like result has no labels, or a
\* number of labels other than the number of values, raises BatchError and
\* gives no result mapping: the task fails with it and returns no record,
\* and execute ends raising it.
C5_MalformedRaises ==
    \A k \in Ran : \A j \in 1..Len(parameters) :
        Malformed(parameters[j], k) =>
            /\ calculate_from(parameters[j], Measured(k)) =
                  [ok |-> FALSE, err |-> BatchError, val |-> EmptyDict]
            /\ ~tasks[k].ok
            /\ tasks[k].err = BatchError
            /\ tasks[k].results = EmptyDict
            /\ pc = "idle" => ret = Raised(BatchError)

C5_Witness ==
    \E k \in Ran :
        LET calls == tasks[k].calls IN
        /\ Len(parameters) = 2
        /\ ~Malformed(parameters[1], k)
        /\ parameters[2].identifier = "levels"
        /\ calls[Len(calls)].call = "parameter"
        /\ calls[Len(calls)].id = "levels"
        /\ ~tasks[k].ok
        /\ tasks[k].results = EmptyDict
        /\ pc = "idle"
        /\ ret = Raised(BatchError)

\* C6: execute with no operation and no parameter registered raises
\* BatchError at once, whatever the mode, with no task started and no file
\* loaded; with an operation or a parameter registered the check passes and
\* the tasks are dispatched. (A step from "idle" that does not return the
\* Batch itself is a call of execute.)
C6_NothingRegisteredRaises ==
    [][pc = "idle" /\ ret'.kind # Self =>
        IF operations = <<>> /\ parameters = <<>>
        THEN /\ pc' = "idle"
             /\ ret' = Raised(BatchError)
             /\ Untouched(tasks')
             /\ \A k \in DOMAIN tasks' : tasks'[k].st = "none"
             /\ results' = <<>>
             /\ outfile' = NoTable
        ELSE /\ ret' # Raised(BatchError)
             /\ filepaths # <<>> =>
                   /\ pc' = "dispatch"
                   /\ \A k \in DOMAIN tasks' :
                         tasks'[k].st = IF multiprocessing' THEN "pending" ELSE "none"
    ]_vars

C6_Witness ==
    /\ operations = <<>>
    /\ parameters = <<>>
    /\ filepaths # <<>>
    /\ multiprocessing
    /\ pc = "idle"
    /\ ret = Raised(BatchError)
    /\ Untouched(tasks)

\* Files whose task has failed.
Failed == {k \in Files : tasks[k].st = "done" /\ ~tasks[k].ok}

\* C7: fail-fast. Once a task has failed, execute can end only by raising
\* the error of a failed task: it returns no table and writes no file,
\* whatever records were collected before; in sequential mode it ends in
\* the very step of the failure, the later files never being started; and
\* within one execute no finished task is run again.
C7_FailFast ==
    /\ [](Failed # {} /\ pc = "idle" =>
            /\ ret.kind = "raise"
            /\ ret.err \in {tasks[k].err : k \in Failed}
            /\ ret.df = NoTable
            /\ outfile = NoTable)
    /\ [](Failed # {} /\ ~multiprocessing =>
            /\ pc = "idle"
            /\ \A k \in Files : (\E f \in Failed : f < k) => tasks[k].st = "none")
    /\ [][\A k \in Files :
            pc = "dispatch" /\ tasks[k].st = "done" => tasks'[k] = tasks[k]]_vars

C7_Witness ==
    /\ multiprocessing
    /\ saveto
    /\ pc = "idle"
    /\ Failed # {}
    /\ Len(results) >= 1
    /\ ret = Raised("LoadError")
    /\ outfile = NoTable

\* An execute that got past the registration check has ended.
Ended == pc = "idle" /\ ret.kind \in {"df", "raise"} /\ ~NothingRegistered

\* What running the tasks one after the other in file-list order gives: the
\* error of the first file that fails, or the table of all the records.
InOrderOutcome ==
    LET out == [k \in Files |-> Task(filepaths[k], operations, parameters)]
        bad == {k \in Files : ~out[k].ok}
    IN IF bad # {}
       THEN Raised(out[CHOOSE k \in bad : \A j \in bad : k <= j].err)
       ELSE ConstructDataframe([k \in Files |-> out[k].results])

\* C8: on the same files, operations and parameters a sequential execute
\* returns the in-order outcome, and a parallel execute, whatever the order
\* in which its tasks complete, returns a table exactly when the sequential
\* one does, with the same columns and the same set of rows.
C8_ParallelEqualsSequential ==
    Ended =>
        /\ ~multiprocessing => ret = InOrderOutcome
        /\ multiprocessing =>
              /\ ret.kind = InOrderOutcome.kind
              /\ ret.kind = "df" =>
                    /\ ret.df.columns = InOrderOutcome.df.columns
                    /\ RowSet(ret.df) = RowSet(InOrderOutcome.df)
                    /\ Len(ret.df.rows) = Len(InOrderOutcome.df.rows)

C8_Witness ==
    /\ Ended
    /\ multiprocessing
    /\ ret.kind = "df"
    /\ operations # <<>>
    /\ Len(ret.df.rows) = 2
    /\ ret.df.rows[1] # ret.df.rows[2]
    /\ ret.df.rows # InOrderOutcome.df.rows
    /\ RowSet(ret.df) = RowSet(InOrderOutcome.df)

\* The keys the registered parameters produce.
KeysOf(p) ==
    IF SurfaceParameter([data |-> 0, calls |-> <<>>], p.identifier, p.args).list
    THEN {p.identifier \o "_" \o ReturnLabels(p.identifier)[i] :
            i \in 1..Len(ReturnLabels(p.identifier))}
    ELSE {p.identifier}

ParameterKeys == UNION {KeysOf(parameters[j]) : j \in 1..Len(parameters)}

Names == {filepaths[k].name : k \in Files}

\* The table has one row per input file, carrying the file's name.
OneRowPerFile(df) ==
    /\ Len(df.rows) = Len(filepaths)
    /\ \A i \in 1..Len(df.rows) : DOMAIN df.rows[i] = df.columns
    /\ \A name \in Names \cup {df.rows[i]["file"] : i \in 1..Len(df.rows)} :
          Cardinality({i \in 1..Len(df.rows) : df.rows[i]["file"] = name})
            = Cardinality({k \in Files : filepaths[k].name = name})

\* C9 as stated: without metadata a returned table has one row per input
\* file, with the file's name, and the columns file plus the parameter keys.
C9_Original ==
    Ended /\ ret.kind = "df" /\ ~additional_data.present =>
        /\ OneRowPerFile(ret.df)
        /\ ret.df.columns = {"file"} \cup ParameterKeys

\* C9 as amended: the columns are file plus the parameter keys when there is
\* at least one input file; with no input file the table has no rows and no
\* columns at all.
C9_RowsAndColumns ==
    Ended /\ ret.kind = "df" /\ ~additional_data.present =>
        /\ OneRowPerFile(ret.df)
        /\ ret.df.columns =
              IF filepaths = <<>> THEN {} ELSE {"file"} \cup ParameterKeys

C9_Witness ==
    /\ Ended
    /\ ret.kind = "df"
    /\ ~additional_data.present
    /\ filepaths = <<D2A, D1B>>
    /\ ret.df.columns = {"file", "Sa", "Sq"}
    /\ Len(ret.df.rows) = 2
    /\ {ret.df.rows[i]["file"] : i \in 1..2} = {"a.ext", "b.ext"}

C11_OneRowPerFileWithMetadata ==
    Ended /\ ret.kind = "df" /\ additional_data.present => OneRowPerFile(ret.df)

\* This step appended exactly one Operation with the given identifier and
\* inplace=True among its keyword arguments at the end of the operations
\* list, changed nothing else of the Batch, and returned the Batch.
AppendedOperation(identifier) ==
    /\ Len(operations') = Len(operations) + 1
    /\ SubSeq(operations', 1, Len(operations)) = operations
    /\ operations'[Len(operations')].identifier = identifier
    /\ "inplace" \in DOMAIN operations'[Len(operations')].kwargs
    /\ operations'[Len(operations')].kwargs["inplace"] = TRUE
    /\ UNCHANGED <<parameters, filepaths, additional_data>>
    /\ ret' = Returned(Self, None, NoTable)

\* C12: each of the ten operation registration methods appends exactly one
\* Operation carrying the method's identifier and inplace=True at the end of
\* the operations list, leaves the earlier operations, the parameters and
\* the file list as they were, and returns the same Batch.
C12_OperationMethodsAppend ==
    [][/\ zero => AppendedOperation("zero")
       /\ center => AppendedOperation("center")
       /\ threshold => AppendedOperation("threshold")
       /\ remove_outliers => AppendedOperation("remove_outliers")
       /\ fill_nonmeasured => AppendedOperation("fill_nonmeasured")
       /\ level => AppendedOperation("level")
       /\ filter => AppendedOperation("filter")
       /\ rotate => AppendedOperation("rotate")
       /\ align => AppendedOperation("align")
       /\ zoom => AppendedOperation("zoom")]_vars

C12_Witness ==
    /\ pc = "idle"
    /\ ret.kind = Self
    /\ Len(operations) = 2
    /\ operations[1].identifier = "filter"
    /\ operations[1].args = <<"lowpass", 10>>
    /\ operations[2].identifier = "remove_outliers"
    /\ \A i \in 1..2 : operations[i].kwargs["inplace"] = TRUE

\* What a step of the attribute fallback must do: for a published parameter
\* append exactly one Parameter with the identifier and the arguments of the
\* call and return the Batch; for a name that is neither published nor an
\* attribute of the instance raise AttributeError and leave the Batch as it is.
FallbackRegisters ==
    \A attr \in Attributes, args \in CallArgs, kwargs \in CallKwargs :
        getattr(attr, args, kwargs) =>
            IF attr \in AVAILABLE_PARAMETERS
            THEN /\ parameters' = Append(parameters,
                        [identifier |-> attr, args |-> args, kwargs |-> kwargs])
                 /\ UNCHANGED <<operations, filepaths, additional_data>>
                 /\ ret' = Returned(Self, None, NoTable)
            ELSE attr \notin InstanceDict =>
                 /\ ret' = Raised("AttributeError")
                 /\ UNCHANGED batch

\* The parameters registered through the fallback.
Published == {j \in 1..Len(parameters) : parameters[j].identifier \in AVAILABLE_PARAMETERS}

\* C13 as stated: the fallback registers or raises as above, and a parameter
\* so registered is a column of the table every execute returns.
C13_Original ==
    /\ [][FallbackRegisters]_vars
    /\ [](Ended /\ ret.kind = "df" =>
            \A j \in Published : parameters[j].identifier \in ret.df.columns)

\* C13 as amended: the fallback registers or raises as above, and a
\* parameter so registered is a column of the table an execute over at
\* least one file returns.
C13_AttributeFallback ==
    /\ [][FallbackRegisters]_vars
    /\ [](Ended /\ ret.kind = "df" /\ filepaths # <<>> =>
            \A j \in Published : parameters[j].identifier \in ret.df.columns)

C13_Witness ==
    /\ Ended
    /\ ret.kind = "df"
    /\ filepaths # <<>>
    /\ Len(parameters) = 2
    /\ parameters[1] = [identifier |-> "Sq", args |-> <<>>, kwargs |-> NoKwargs]
    /\ parameters[2] = [identifier |-> "Sa", args |-> <<1>>, kwargs |-> [p |-> 10]]
    /\ {"Sa", "Sq"} \subseteq ret.df.columns
    /\ Len(ret.df.rows) = 1

\* The lists roughness_parameters is called with; <<>> stands for no argument.
Givens == {<<>>} \cup {<<l>> : l \in ParameterLists}

\* What roughness_parameters must have appended for the given argument:
\* without one, a default Parameter for every published identifier, each
\* exactly once; with a list, one entry per element in list order, a string
\* as the default Parameter of that identifier and a record as it is.
AppendedParameters(given) ==
    LET n == Len(parameters)
        default(id) == [identifier |-> id, args |-> <<>>, kwargs |-> EmptyDict]
    IN /\ Len(parameters') >= n
       /\ SubSeq(parameters', 1, n) = parameters
       /\ IF given = <<>>
          THEN /\ Len(parameters') = n + Cardinality(AVAILABLE_PARAMETERS)
               /\ \A id \in AVAILABLE_PARAMETERS :
                     Cardinality({i \in (n + 1)..Len(parameters') :
                                    parameters'[i] = default(id)}) = 1
          ELSE /\ Len(parameters') = n + Len(given[1])
               /\ \A i \in 1..Len(given[1]) :
                     parameters'[n + i] =
                        IF given[1][i].isstr
                        THEN default(given[1][i].parameter.identifier)
                        ELSE given[1][i].parameter
       /\ UNCHANGED <<operations, filepaths, additional_data>>
       /\ ret' = Returned(Self, None, NoTable)

\* C14: roughness_parameters without argument appends one default Parameter
\* per published identifier, each exactly once; with a list it appends one
\* entry per element in list order, a bare string as a default Parameter
\* and a Parameter record as it is; the earlier registrations are kept and
\* the Batch is returned.
C14_RoughnessParameters ==
    [][roughness_parameters => \E given \in Givens : AppendedParameters(given)]_vars

C14_Witness ==
    /\ pc = "idle"
    /\ ret.kind = Self
    /\ operations = <<>>
    /\ parameters = <<[identifier |-> "Sa", args |-> <<>>, kwargs |-> EmptyDict],
                      [identifier |-> "Vmc", args |-> <<1>>, kwargs |-> EmptyDict]>>

OperationCalls(k) ==
    SelectSeq(tasks[k].calls, LAMBDA c : c.call = "operation")

\* The data of a file after the first i operations, an operation acting on
\* the data only when its own keyword arguments carry inplace=True.
StoredFlagData(filepath, i) ==
    LET f[j \in 0..i] ==
            IF j = 0 THEN FileData(filepath)
            ELSE IF "inplace" \in DOMAIN operations[j].kwargs
                    /\ operations[j].kwargs["inplace"] = TRUE
                 THEN OperationEffect(operations[j].identifier, operations[j].args, f[j - 1])
                 ELSE f[j - 1]
    IN f[i]

\* C16 as stated: every operation capability is invoked with inplace=True
\* among its keyword arguments, whatever the Operation was constructed
\* with, so each operation acts on the data object; nothing an operation
\* returns reaches the record.
C16_Original ==
    \A k \in Ran :
        /\ Len(OperationCalls(k)) = Len(operations)
        /\ \A i \in 1..Len(operations) :
              /\ "inplace" \in DOMAIN OperationCalls(k)[i].kwargs
              /\ OperationCalls(k)[i].kwargs["inplace"] = TRUE
        /\ tasks[k].data = ExpectedData(filepaths[k], Len(operations))
        /\ tasks[k].ok => DOMAIN tasks[k].results = {"file"} \cup ParameterKeys

\* C16 as amended: every operation capability is invoked with exactly the
\* positional and keyword arguments of its Operation record, nothing added:
\* it acts on the data object exactly when the record carries inplace=True;
\* nothing an operation returns reaches the record.
C16_StoredArgumentsPassed ==
    \A k \in Ran :
        /\ Len(OperationCalls(k)) = Len(operations)
        /\ \A i \in 1..Len(operations) :
              /\ OperationCalls(k)[i].id = operations[i].identifier
              /\ OperationCalls(k)[i].args = operations[i].args
              /\ OperationCalls(k)[i].kwargs = operations[i].kwargs
        /\ tasks[k].data = StoredFlagData(filepaths[k], Len(operations))
        /\ tasks[k].ok => DOMAIN tasks[k].results = {"file"} \cup ParameterKeys

C16_Witness ==
    \E k \in Ran :
        /\ Len(operations) = 2
        /\ operations[1] = Operation("center", <<>>, EmptyDict)
        /\ operations[2] = Operation("rotate", <<1>>, Inplace)
        /\ OperationCalls(k)[1].kwargs = EmptyDict
        /\ OperationCalls(k)[2].kwargs = Inplace
        /\ tasks[k].data = OperationEffect("rotate", <<1>>, FileData(filepaths[k]))
        /\ tasks[k].data # ExpectedData(filepaths[k], 2)

\* In sequential mode the tasks run one at a time in file-list order: the
\* files whose task has run are the first ones of the list, at most the
\* last of them failed, and record i is the record of file i.
InFileListOrder ==
    ~multiprocessing =>
        /\ \A k \in Files : tasks[k].st \in {"none", "done"}
        /\ \A k \in Files : tasks[k].st = "done" =>
              \A j \in 1..(k - 1) : tasks[j].st = "done" /\ tasks[j].ok
        /\ Len(results) = Cardinality({k \in Files : tasks[k].st = "done" /\ tasks[k].ok})
        /\ \A i \in 1..Len(results) : results[i] = tasks[i].results

\* Row i of the table belongs to file i of the list.
RowsInFileListOrder(df) ==
    /\ Len(df.rows) = Len(filepaths)
    /\ \A i \in 1..Len(df.rows) : df.rows[i]["file"] = filepaths[i].name

\* The rows follow the order of the metadata table, and the rows of one
\* file name carry the records of the files of that name in file-list order.
RowsInMetadataOrder(df) ==
    LET meta == additional_data.rows
        at(name) == CHOOSE m \in 1..Len(meta) : meta[m]["file"] = name
        of(name) == SelectSeq(df.rows, LAMBDA r : r["file"] = name)
        named(name) == SelectSeq(results, LAMBDA r : r["file"] = name)
    IN /\ \A i, j \in 1..Len(df.rows) :
             i < j => at(df.rows[i]["file"]) <= at(df.rows[j]["file"])
       /\ \A i \in 1..Len(df.rows) :
             LET name == df.rows[i]["file"] IN
             /\ Len(of(name)) = Len(named(name))
             /\ \A n \in 1..Len(of(name)) :
                   \A c \in DOMAIN named(name)[n] : of(name)[n][c] = named(name)[n][c]

Yielded == {k \in Files : tasks[k].st = "done"} \ {completed[i] : i \in 1..Len(completed)}

\* C18: in parallel mode exactly one task is submitted per file; whatever
\* the order in which the tasks complete, every finished task is yielded
\* once, its record collected exactly once and the progress advanced once
\* per collected record; execute returns a table only after all tasks have
\* completed, with as many records and as much progress as files, and
\* otherwise raises the error of a task that failed.
C18_ParallelCollectsAll ==
    multiprocessing /\ (pc = "dispatch" \/ Ended) =>
        /\ DOMAIN tasks = Files
        /\ \A k \in Files : tasks[k].st \in {"pending", "done"}
        /\ \A i \in 1..Len(completed) :
              /\ tasks[completed[i]].st = "done"
              /\ \A j \in 1..Len(completed) : completed[i] = completed[j] => i = j
        /\ progress = Len(results)
        /\ \A r \in {tasks[k].results : k \in Files} \cup RowSet([rows |-> results]) :
              Cardinality({i \in 1..Len(results) : results[i] = r})
                = Cardinality({k \in Yielded : tasks[k].ok /\ tasks[k].results = r})
        /\ pc = "dispatch" => Yielded \cap Failed = {}
        /\ pc = "idle" =>
              IF Failed # {}
              THEN ret.kind = "raise" /\ ret.err \in {tasks[k].err : k \in Failed}
              ELSE /\ \A k \in Files : tasks[k].st = "done" /\ tasks[k].ok
                   /\ completed = <<>>
                   /\ Len(results) = Len(filepaths)
                   /\ progress = Len(filepaths)
                   /\ ret = ConstructDataframe(results)

C18_Witness ==
    /\ Ended
    /\ multiprocessing
    /\ ret.kind = "df"
    /\ Len(filepaths) = 2
    /\ progress = 2
    /\ Len(results) = 2
    /\ results[1] = tasks[2].results
    /\ results[2] = tasks[1].results
    /\ results[1] # results[2]

\* What the capability of parameter p returns on data x.
ReturnedOn(p, x) == SurfaceParameter([data |-> x, calls |-> <<>>], p.identifier, p.args)

\* The value parameter p gives under key on data x.
ValueUnder(p, key, x) ==
    IF ReturnedOn(p, x).list
    THEN LET labels == ReturnLabels(p.identifier)
             i == CHOOSE i \in 1..Len(labels) : key = p.identifier \o "_" \o labels[i]
         IN ReturnedOn(p, x).vals[i]
    ELSE ReturnedOn(p, x).vals[1]

\* What one file gives by itself under the registered lists: a load error
\* for an unreadable file, BatchError for a list-like result without
\* fitting labels, and otherwise the record of the file's name and, under
\* every parameter key, the value of the last parameter producing the key,
\* measured on the file's data after all the operations.
SoloOutcome(filepath) ==
    LET x == ExpectedData(filepath, Len(operations))
        bad(p) == /\ ReturnedOn(p, x).list
                  /\ \/ ~HasReturnLabels(p.identifier)
                     \/ Len(ReturnLabels(p.identifier)) # Len(ReturnedOn(p, x).vals)
        last(key) == CHOOSE j \in 1..Len(parameters) :
                        /\ key \in KeysOf(parameters[j])
                        /\ \A i \in (j + 1)..Len(parameters) : key \notin KeysOf(parameters[i])
    IN IF ~Readable(filepath)
       THEN [ok |-> FALSE, err |-> "LoadError", results |-> EmptyDict]
       ELSE IF \E j \in 1..Len(parameters) : bad(parameters[j])
       THEN [ok |-> FALSE, err |-> BatchError, results |-> EmptyDict]
       ELSE [ok |-> TRUE, err |-> None,
             results |-> [key \in {"file"} \cup ParameterKeys |->
                            IF key = "file" THEN filepath.name
                            ELSE ValueUnder(parameters[last(key)], key, x)]]

\* C19: the outcome of a file's task depends only on that file and the
\* registered operations and parameters: in either mode and under every
\* interleaving it is what the file gives by itself, whichever other files
\* the batch holds; every collected record is some file's own record; and
\* no step of one task changes the outcome of another task or a record
\* already collected.
C19_TasksIndependent ==
    /\ [](\A k \in Files : tasks[k].st = "done" =>
            [ok |-> tasks[k].ok, err |-> tasks[k].err, results |-> tasks[k].results]
               = SoloOutcome(filepaths[k]))
    /\ [](\A i \in 1..Len(results) :
            \E k \in Files : SoloOutcome(filepaths[k]).ok
                              /\ results[i] = SoloOutcome(filepaths[k]).results)
    /\ [][pc = "dispatch" =>
            /\ Cardinality({k \in Files : tasks'[k] # tasks[k]}) <= 1
            /\ Len(results') >= Len(results)
            /\ SubSeq(results', 1, Len(results)) = results]_vars

C19_Witness ==
    /\ Ended
    /\ multiprocessing
    /\ ret.kind = "df"
    /\ filepaths = <<D1C, D2A>>
    /\ Len(operations) = 1
    /\ operations[1].identifier = "rotate"
    /\ Len(parameters) = 1
    /\ parameters[1].identifier = "Sa"
    /\ results = <<SoloOutcome(D2A).results, SoloOutcome(D1C).results>>
    /\ SoloOutcome(D2A).results["Sa"] # SoloOutcome(D1C).results["Sa"]

\* C20: execution only reads the registered state. No step of an execute,
\* whether it ends with a table or an error and in either mode, changes the
\* file list, the metadata, the operations or the parameters or any record
\* in them; and an execute run again on the same Batch after one that
\* returned a table returns a table with the same columns and the same rows.
C20_ExecuteReadOnly ==
    /\ [][ret'.kind # Self => UNCHANGED batch]_vars
    /\ [](Ended /\ previous.has =>
            /\ ret.kind = "df"
            /\ ret.df.columns = previous.columns
            /\ RowSet(ret.df) = previous.rows
            /\ Len(ret.df.rows) = previous.n)

C20_Witness ==
    /\ Ended
    /\ previous.has
    /\ multiprocessing
    /\ ret.kind = "df"
    /\ Len(filepaths) = 2
    /\ operations # <<>>
    /\ parameters # <<>>
    /\ previous.n = 2
    /\ RowSet(ret.df) = previous.rows

\* The last registered parameter that produces the key.
LastProducer(key) ==
    CHOOSE j \in 1..Len(parameters) :
        /\ key \in KeysOf(parameters[j])
        /\ \A i \in (j + 1)..Len(parameters) : key \notin KeysOf(parameters[i])

\* The parameter capabilities invoked in task k, in the order of the log.
ParameterCalls(k) == SelectSeq(tasks[k].calls, LAMBDA c : c.call = "parameter")

\* C21: result keys collide with last-write-wins. In a task that succeeds
\* every registered parameter is evaluated, in registration order, and the
\* record holds one entry per distinct key: under each parameter key the
\* value of the last registered parameter producing it (the key file
\* included, which otherwise carries the file's name), so the record has as
\* many parameter entries as distinct keys, and the table as many columns.
C21_LastWriteWins ==
    /\ \A k \in Ran : tasks[k].ok =>
          /\ Len(ParameterCalls(k)) = Len(parameters)
          /\ \A j \in 1..Len(parameters) :
                ParameterCalls(k)[j].id = parameters[j].identifier
          /\ DOMAIN tasks[k].results = {"file"} \cup ParameterKeys
          /\ \A key \in ParameterKeys :
                tasks[k].results[key] =
                    ValueUnder(parameters[LastProducer(key)], key, tasks[k].data)
          /\ "file" \notin ParameterKeys => tasks[k].results["file"] = filepaths[k].name
          /\ Cardinality(DOMAIN tasks[k].results \ {"file"})
                = Cardinality(ParameterKeys \ {"file"})
    /\ Ended /\ ret.kind = "df" =>
          /\ ret.df.columns = {"file"} \cup ParameterKeys
          /\ \A i \in 1..Len(ret.df.rows) : DOMAIN ret.df.rows[i] = ret.df.columns

C21_Witness ==
    \E k \in Ran :
        /\ tasks[k].ok
        /\ Len(parameters) = 2
        /\ parameters[1] = [identifier |-> "Vmc", args |-> <<1>>, kwargs |-> EmptyDict]
        /\ parameters[2] = [identifier |-> "Vmc", args |-> <<2>>, kwargs |-> EmptyDict]
        /\ Len(ParameterCalls(k)) = 2
        /\ DOMAIN tasks[k].results = {"file", "Vmc"}
        /\ tasks[k].results["Vmc"] = ReturnedOn(parameters[2], tasks[k].data).vals[1]
        /\ tasks[k].results["Vmc"] # ReturnedOn(parameters[1], tasks[k].data).vals[1]
        /\ Ended
        /\ ret.kind = "df"
        /\ ret.df.columns = {"file", "Vmc"}

====
